---- MODULE Spec2Model ----
(***************************************************************************)
(* Rhyme-family pipeline of rhyme_families_basic.py and                    *)
(* rhyme_families_enhanced.py.                                             *)
(*                                                                         *)
(* Text is modelled as a sequence of one-character strings, so that the    *)
(* character loops of the source (str.endswith, str.lower, the variant     *)
(* regex, ortho_ending, str.join, the number formatting) are computed      *)
(* character by character.  A Python dict is an insertion-ordered sequence *)
(* of [k, v] records.  A score is an integer number of thousandths, so     *)
(* that round(z, 2) and the "{z:.1f}" formatting are real conversions.     *)
(***************************************************************************)
EXTENDS Integers, Sequences, FiniteSets, TLC

VARIABLES
    script,               \* which of the two scripts runs: "basic" | "enhanced"
    cmu_entries,          \* the Pronunciation Source: <<raw_word, phonemes>> pairs
    zipf,                 \* the Frequency Source: word -> score (thousandths)
    pc,                   \* position in main()
    word_pronunciations,  \* dict canonical word -> list of phoneme lists
    families,             \* basic: dict unit -> dict word -> score
    by_type,              \* enhanced: dict rtype -> dict unit -> dict word -> score
    stats,                \* kept, skipped_freq, skipped_stress
    rows,                 \* basic: the output rows
    type_rows,            \* enhanced: dict rtype -> rows
    all_rows,             \* enhanced: the combined rows
    files,                \* the destinations: path -> [state, lines]
    writer                \* the output being written, and whether its file is open

vars == <<script, cmu_entries, zipf, pc, word_pronunciations, families,
          by_type, stats, rows, type_rows, all_rows, files, writer>>

(***************************************************************************)
(* Configuration.                                                          *)
(***************************************************************************)
ZIPF_CUTOFF == 2500
MIN_FAMILY_SIZE == 3
MAX_VARIANTS == 6

(***************************************************************************)
(* Bounds of the inputs.                                                   *)
(***************************************************************************)
MaxEntries == 8
MaxPhonemes == 4

(***************************************************************************)
(* Python values.                                                          *)
(***************************************************************************)
None == <<>>
Some(x) == <<x>>

Range(s) == {s[i] : i \in DOMAIN s}

\* dict: k in d
HasKey(d, k) == \E i \in DOMAIN d : d[i].k = k

\* dict: d[k] for a key that is present
Get(d, k) == d[CHOOSE i \in DOMAIN d : d[i].k = k].v

\* defaultdict: d[k], the default when the key is missing
GetDefault(d, k, default) == IF HasKey(d, k) THEN Get(d, k) ELSE default

\* dict: d[k] = v, which keeps the place of a key that is present
Put(d, k, v) ==
    IF HasKey(d, k)
    THEN [i \in DOMAIN d |-> IF d[i].k = k THEN [k |-> k, v |-> v] ELSE d[i]]
    ELSE Append(d, [k |-> k, v |-> v])

\* dict.items()
Items(d) == [i \in DOMAIN d |-> <<d[i].k, d[i].v>>]

\* dict.values()
Values(d) == [i \in DOMAIN d |-> d[i].v]

\* tuple comparison a > b, for tuples of integers of one length
TupleGT(a, b) ==
    \E i \in DOMAIN a : a[i] > b[i] /\ \A j \in 1..(i - 1) : a[j] = b[j]

\* sorted(..., reverse=True), one insertion: x goes after every element whose
\* key is not smaller, so equal keys keep their order (the sort is stable)
RECURSIVE InsertDesc(_, _)
InsertDesc(sorted, x) ==
    IF sorted = <<>> THEN <<x>>
    ELSE IF TupleGT(x.key, Head(sorted).key) THEN <<x>> \o sorted
    ELSE <<Head(sorted)>> \o InsertDesc(Tail(sorted), x)

RECURSIVE SortDescLoop(_, _)
SortDescLoop(todo, sorted) ==
    IF todo = <<>> THEN sorted
    ELSE SortDescLoop(Tail(todo), InsertDesc(sorted, Head(todo)))

\* sorted(keyed, key=..., reverse=True) of [key, item] records
SortedDesc(keyed) ==
    LET s == SortDescLoop(keyed, <<>>) IN [i \in DOMAIN s |-> s[i].item]

\* sep.join(parts)
RECURSIVE Join(_, _)
Join(sep, parts) ==
    IF parts = <<>> THEN <<>>
    ELSE IF Len(parts) = 1 THEN parts[1]
    ELSE parts[1] \o sep \o Join(sep, Tail(parts))

UpperLetters == <<"A", "B", "C", "D", "E", "F", "G", "H", "I", "J", "K", "L", "M",
                  "N", "O", "P", "Q", "R", "S", "T", "U", "V", "W", "X", "Y", "Z">>
LowerLetters == <<"a", "b", "c", "d", "e", "f", "g", "h", "i", "j", "k", "l", "m",
                  "n", "o", "p", "q", "r", "s", "t", "u", "v", "w", "x", "y", "z">>
DigitChars == <<"0", "1", "2", "3", "4", "5", "6", "7", "8", "9">>

\* the lower-case letter of each upper-case letter
ToLower ==
    [c \in Range(UpperLetters) |->
        LowerLetters[CHOOSE j \in DOMAIN UpperLetters : UpperLetters[j] = c]]

\* str.lower()
lower(word) ==
    [i \in DOMAIN word |-> IF word[i] \in DOMAIN ToLower THEN ToLower[word[i]] ELSE word[i]]

\* str(n) for n >= 0
RECURSIVE Digits(_)
Digits(n) ==
    IF n < 10 THEN <<DigitChars[n + 1]>>
    ELSE Digits(n \div 10) \o <<DigitChars[(n % 10) + 1]>>

\* round(z, 2): thousandths to the nearest hundredth (no score of the model
\* ends in 5, where the binary float decides the tie)
Round2(z) == ((z + 5) \div 10) * 10

\* f"{z:.1f}": thousandths to the nearest tenth, as text (no score of the
\* model ends in 50, where the binary float decides the tie)
Fmt1(z) ==
    LET t == (z + 50) \div 100
    IN  Digits(t \div 10) \o <<".">> \o <<DigitChars[(t % 10) + 1]>>

(***************************************************************************)
(* Phoneme utilities.                                                      *)
(***************************************************************************)
\* _VARIANT_RE.sub('', word): a trailing "(", one or more digits, ")" is cut
strip_variant(word) ==
    LET n == Len(word)
        IsDigit(i) == word[i] \in Range(DigitChars)
        opens == {p \in 1..(n - 2) :
                    /\ word[p] = "("
                    /\ \A i \in (p + 1)..(n - 1) : IsDigit(i)}
    IN  IF n >= 3 /\ word[n] = ")" /\ opens # {}
        THEN SubSeq(word, 1, (CHOOSE p \in opens : TRUE) - 1)
        ELSE word

\* ph.endswith('1')
EndsWith1(ph) == Len(ph) > 0 /\ ph[Len(ph)] = "1"

\* the loop of rhyme_unit: last_idx after the phonemes from position i on
RECURSIVE LastStressLoop(_, _, _)
LastStressLoop(phonemes, i, last_idx) ==
    IF i > Len(phonemes) THEN last_idx
    ELSE LastStressLoop(phonemes, i + 1,
                        IF EndsWith1(phonemes[i]) THEN Some(i) ELSE last_idx)

\* a plausible slip: the loop stops at the first primary stress
RECURSIVE FirstStressLoop(_, _, _)
FirstStressLoop(phonemes, i, last_idx) ==
    IF i > Len(phonemes) \/ last_idx # None THEN last_idx
    ELSE FirstStressLoop(phonemes, i + 1,
                         IF EndsWith1(phonemes[i]) THEN Some(i) ELSE last_idx)

rhyme_unit_first(phonemes) ==
    LET last_idx == FirstStressLoop(phonemes, 1, None)
    IN  IF last_idx # None
        THEN Some(SubSeq(phonemes, last_idx[1], Len(phonemes)))
        ELSE None

\* basic: rhyme_unit(phonemes), None or Some(unit)
rhyme_unit(phonemes) ==
    LET last_idx == LastStressLoop(phonemes, 1, None)
    IN  IF last_idx # None
        THEN Some(SubSeq(phonemes, last_idx[1], Len(phonemes)))
        ELSE None

\* enhanced: is_vowel_ph(ph)
is_vowel_ph(ph) == ph[Len(ph)] \in {"0", "1", "2"}

\* enhanced: count_vowels(phonemes)
RECURSIVE count_vowels(_)
count_vowels(phonemes) ==
    IF phonemes = <<>> THEN 0
    ELSE (IF is_vowel_ph(Head(phonemes)) THEN 1 ELSE 0) + count_vowels(Tail(phonemes))

\* a plausible slip: the vowels of the whole pronunciation are counted
rhyme_unit_and_type_whole(phonemes) ==
    LET last_stress_idx == LastStressLoop(phonemes, 1, None)
        unit == SubSeq(phonemes, last_stress_idx[1], Len(phonemes))
        vowel_count == count_vowels(phonemes)
        rtype == IF vowel_count <= 1 THEN "masculine"
                 ELSE IF vowel_count = 2 THEN "feminine"
                 ELSE "dactylic"
    IN  IF last_stress_idx = None THEN None
        ELSE Some(<<unit, rtype, vowel_count - 1>>)

\* enhanced: rhyme_unit_and_type(phonemes), None or Some(<<unit, rtype, syllables_after>>)
rhyme_unit_and_type(phonemes) ==
    LET last_stress_idx == LastStressLoop(phonemes, 1, None)
        unit == SubSeq(phonemes, last_stress_idx[1], Len(phonemes))
        vowel_count == count_vowels(unit)
        syllables_after == vowel_count - 1
        rtype == IF vowel_count <= 1 THEN "masculine"
                 ELSE IF vowel_count = 2 THEN "feminine"
                 ELSE "dactylic"
    IN  IF last_stress_idx = None THEN None
        ELSE Some(<<unit, rtype, syllables_after>>)

(***************************************************************************)
(* Orthographic utilities.                                                 *)
(***************************************************************************)
VOWEL_SET == {"a", "e", "i", "o", "u"}

\* the loop of ortho_ending: last_v (0-based, -1 for none) after position i on
RECURSIVE LastVowelLoop(_, _, _)
LastVowelLoop(lowered, i, last_v) ==
    IF i > Len(lowered) THEN last_v
    ELSE LastVowelLoop(lowered, i + 1,
                       IF lowered[i] \in VOWEL_SET THEN i - 1 ELSE last_v)

\* ortho_ending(word): word[last_v:].lower(), or word.lower()
ortho_ending(word) ==
    LET last_v == LastVowelLoop(lower(word), 1, -1)
    IN  IF last_v >= 0 THEN lower(SubSeq(word, last_v + 1, Len(word)))
        ELSE lower(word)

(***************************************************************************)
(* Stage 2: all pronunciations per canonical word.                         *)
(***************************************************************************)
\* a plausible slip: the variant marker is kept
canonical_unstripped(raw_word) == lower(raw_word)

\* canonical = strip_variant(raw_word).lower()
canonical(raw_word) == lower(strip_variant(raw_word))

RECURSIVE CollectLoop(_, _)
CollectLoop(entries, wp) ==
    IF entries = <<>> THEN wp
    ELSE LET raw_word == Head(entries)[1]
             phonemes == Head(entries)[2]
             word     == canonical(raw_word)
         IN  CollectLoop(Tail(entries),
                         Put(wp, word, Append(GetDefault(wp, word, <<>>), phonemes)))

(***************************************************************************)
(* Stage 3: the frequency filter and the families.                         *)
(***************************************************************************)
\* a plausible slip: the score is rounded for display before it is compared
BelowCutoffRounded(z) == Round2(z) < ZIPF_CUTOFF

\* z < ZIPF_CUTOFF
BelowCutoff(z) == z < ZIPF_CUTOFF

\* a plausible slip: the family is a list of members and no pronunciation is
\* skipped as already seen
PlacePronAppend(st, word, z, phonemes) ==
    LET unit == rhyme_unit(phonemes)
    IN  IF unit = None
        THEN [st EXCEPT !.skipped_stress = @ + 1]
        ELSE [st EXCEPT !.units_seen = @ \cup {unit[1]},
                        !.families = Put(@, unit[1],
                                         Append(GetDefault(@, unit[1], <<>>),
                                                [k |-> word, v |-> z]))]

\* basic: the body of "for phonemes in pron_list"
PlacePron(st, word, z, phonemes) ==
    LET unit == rhyme_unit(phonemes)
    IN  IF unit = None
        THEN [st EXCEPT !.skipped_stress = @ + 1]
        ELSE IF unit[1] \in st.units_seen
        THEN st
        ELSE [st EXCEPT !.units_seen = @ \cup {unit[1]},
                        !.families = Put(@, unit[1],
                                         Put(GetDefault(@, unit[1], <<>>), word, z))]

RECURSIVE PronLoop(_, _, _, _)
PronLoop(pron_list, word, z, st) ==
    IF pron_list = <<>> THEN st
    ELSE PronLoop(Tail(pron_list), word, z, PlacePron(st, word, z, Head(pron_list)))

\* basic: "for word, pron_list in word_pronunciations.items()"
RECURSIVE WordLoop(_, _)
WordLoop(items, acc) ==
    IF items = <<>> THEN acc
    ELSE LET word      == Head(items)[1]
             pron_list == Head(items)[2]
             z         == zipf[word]
             st        == PronLoop(pron_list, word, z,
                                   [families       |-> acc.families,
                                    units_seen     |-> {},
                                    skipped_stress |-> acc.skipped_stress])
         IN  IF BelowCutoff(z)
             THEN WordLoop(Tail(items), [acc EXCEPT !.skipped_freq = @ + 1])
             ELSE WordLoop(Tail(items),
                           [families       |-> st.families,
                            kept           |-> acc.kept + (IF st.units_seen # {} THEN 1 ELSE 0),
                            skipped_freq   |-> acc.skipped_freq,
                            skipped_stress |-> st.skipped_stress])

\* enhanced: the keys of by_type, in the order of the dict literal
RTYPES == <<"masculine", "feminine", "dactylic">>

\* enhanced: the body of "for phonemes in pron_list"
PlacePronTyped(st, word, z, phonemes) ==
    LET result == rhyme_unit_and_type(phonemes)
        unit   == result[1][1]
        rtype  == result[1][2]
        key    == <<unit, rtype>>
        fams   == Get(st.by_type, rtype)
    IN  IF result = None
        THEN [st EXCEPT !.skipped_stress = @ + 1]
        ELSE IF key \in st.seen_unit_type
        THEN st
        ELSE [st EXCEPT !.seen_unit_type = @ \cup {key},
                        !.by_type = Put(@, rtype,
                                        Put(fams, unit,
                                            Put(GetDefault(fams, unit, <<>>), word, z))),
                        !.placed = TRUE]

RECURSIVE PronLoopTyped(_, _, _, _)
PronLoopTyped(pron_list, word, z, st) ==
    IF pron_list = <<>> THEN st
    ELSE PronLoopTyped(Tail(pron_list), word, z,
                       PlacePronTyped(st, word, z, Head(pron_list)))

\* enhanced: "for word, pron_list in word_pronunciations.items()"
RECURSIVE WordLoopTyped(_, _)
WordLoopTyped(items, acc) ==
    IF items = <<>> THEN acc
    ELSE LET word      == Head(items)[1]
             pron_list == Head(items)[2]
             z         == zipf[word]
             st        == PronLoopTyped(pron_list, word, z,
                                        [by_type        |-> acc.by_type,
                                         seen_unit_type |-> {},
                                         placed         |-> FALSE,
                                         skipped_stress |-> acc.skipped_stress])
         IN  IF BelowCutoff(z)
             THEN WordLoopTyped(Tail(items), [acc EXCEPT !.skipped_freq = @ + 1])
             ELSE WordLoopTyped(Tail(items),
                                [by_type        |-> st.by_type,
                                 kept           |-> acc.kept + (IF st.placed THEN 1 ELSE 0),
                                 skipped_freq   |-> acc.skipped_freq,
                                 skipped_stress |-> st.skipped_stress])

(***************************************************************************)
(* Stage 4: one output row per qualifying family.                          *)
(***************************************************************************)
\* sorted(pairs, key=lambda x: x[1], reverse=True) of <<word, score>> pairs
SortByScore(pairs) ==
    SortedDesc([i \in DOMAIN pairs |-> [key |-> <<pairs[i][2]>>, item |-> pairs[i]]])

Reverse(s) == [i \in DOMAIN s |-> s[Len(s) + 1 - i]]

\* a plausible slip: an ascending sort that is then reversed, which turns the
\* order of equal scores around
SortMembersReversed(word_z_map) ==
    LET pairs == Items(word_z_map)
    IN  Reverse(SortedDesc([i \in DOMAIN pairs |->
                              [key |-> <<0 - pairs[i][2]>>, item |-> pairs[i]]]))

\* members = sorted(word_z_map.items(), key=lambda x: x[1], reverse=True)
SortMembers(word_z_map) == SortByScore(Items(word_z_map))

\* a plausible slip: the comparison is turned around
ReplacesBestLower(by_ending, ending, z) ==
    ~HasKey(by_ending, ending) \/ z < Get(by_ending, ending)[2]

\* ending not in by_ending or z > by_ending[ending][1]
ReplacesBest(by_ending, ending, z) ==
    ~HasKey(by_ending, ending) \/ z > Get(by_ending, ending)[2]

\* "for word, z in members": the best word per orthographic ending
RECURSIVE ByEndingLoop(_, _)
ByEndingLoop(members, by_ending) ==
    IF members = <<>> THEN by_ending
    ELSE LET word   == Head(members)[1]
             z      == Head(members)[2]
             ending == ortho_ending(word)
         IN  ByEndingLoop(Tail(members),
                          IF ReplacesBest(by_ending, ending, z)
                          THEN Put(by_ending, ending, <<word, z>>)
                          ELSE by_ending)

\* variants = sorted(by_ending.values(), key=lambda x: x[1], reverse=True)
Variants(members) == SortByScore(Values(ByEndingLoop(members, <<>>)))

\* variants[:MAX_VARIANTS]
Capped(variants) ==
    SubSeq(variants, 1, IF Len(variants) < MAX_VARIANTS THEN Len(variants) ELSE MAX_VARIANTS)

\* ',  '.join(f"{w} ({z:.1f})" for w, z in variants[:MAX_VARIANTS])
VariantStr(variants) ==
    LET shown == Capped(variants)
    IN  Join(<<",", " ", " ">>,
             [i \in DOMAIN shown |->
                 shown[i][1] \o <<" ", "(">> \o Fmt1(shown[i][2]) \o <<")">>])

\* ', '.join(w for w, _ in members)
AllWords(members) == Join(<<",", " ">>, [i \in DOMAIN members |-> members[i][1]])

\* basic: the row of one family
BasicRow(unit, word_z_map) ==
    LET members == SortMembers(word_z_map)
    IN  [rhyme_unit        |-> Join(<<" ">>, unit),
         family_size       |-> Len(members),
         representative    |-> members[1][1],
         rep_zipf          |-> Round2(members[1][2]),
         spelling_variants |-> VariantStr(Variants(members)),
         all_words         |-> AllWords(members)]

\* enhanced: build_family_row(unit, members, rtype)
build_family_row(unit, members, rtype) ==
    [type              |-> rtype,
     rhyme_unit        |-> Join(<<" ">>, unit),
     syllables_after   |-> count_vowels(unit) - 1,
     family_size       |-> Len(members),
     representative    |-> members[1][1],
     rep_zipf          |-> Round2(members[1][2]),
     spelling_variants |-> VariantStr(Variants(members)),
     all_words         |-> AllWords(members)]

\* a plausible slip: <= for <
TooSmallInclusive(word_z_map) == Len(word_z_map) <= MIN_FAMILY_SIZE

\* len(word_z_map) < MIN_FAMILY_SIZE
TooSmall(word_z_map) == Len(word_z_map) < MIN_FAMILY_SIZE

\* basic: "for unit, word_z_map in families.items()"
RECURSIVE RowLoop(_, _)
RowLoop(fams, out) ==
    IF fams = <<>> THEN out
    ELSE LET unit       == Head(fams).k
             word_z_map == Head(fams).v
         IN  IF TooSmall(word_z_map)
             THEN RowLoop(Tail(fams), out)
             ELSE RowLoop(Tail(fams), Append(out, BasicRow(unit, word_z_map)))

\* enhanced: "for unit, word_z_map in families.items()"
RECURSIVE RowLoopTyped(_, _, _)
RowLoopTyped(fams, rtype, out) ==
    IF fams = <<>> THEN out
    ELSE LET unit       == Head(fams).k
             word_z_map == Head(fams).v
         IN  IF TooSmall(word_z_map)
             THEN RowLoopTyped(Tail(fams), rtype, out)
             ELSE RowLoopTyped(Tail(fams), rtype,
                               Append(out, build_family_row(unit, SortMembers(word_z_map), rtype)))

(***************************************************************************)
(* Stage 4/5: ranking.                                                     *)
(***************************************************************************)
\* a plausible slip: the representative score is left out of the key
SortRowsBySize(rs) ==
    SortedDesc([i \in DOMAIN rs |-> [key |-> <<rs[i].family_size>>, item |-> rs[i]]])

\* rows.sort(key=lambda r: (r['family_size'], r['rep_zipf']), reverse=True)
SortRows(rs) ==
    SortedDesc([i \in DOMAIN rs |->
                  [key |-> <<rs[i].family_size, rs[i].rep_zipf>>, item |-> rs[i]]])

\* enhanced: "for rtype, families in by_type.items()", with the sort of each
\* type's rows; acc = [type_rows, all_rows]
RECURSIVE TypeLoop(_, _)
TypeLoop(types, acc) ==
    IF types = <<>> THEN acc
    ELSE LET rtype == Head(types).k
             rs    == SortRows(RowLoopTyped(Head(types).v, rtype, <<>>))
         IN  TypeLoop(Tail(types),
                      [type_rows |-> Put(acc.type_rows, rtype, rs),
                       all_rows  |-> acc.all_rows \o rs])

(***************************************************************************)
(* The inputs: selections, in order, from small dictionaries in the form   *)
(* of CMUdict, and homophones with every short phoneme sequence.           *)
(***************************************************************************)
\* fire/hire/wire with a feminine and a masculine pronunciation each (one
\* variant line capitalised), and a word with two pronunciations that share
\* the rhyme unit and one without primary stress
CorpusVariants ==
    <<
      <<<<"f", "i", "r", "e">>,
        <<<<"F">>, <<"A", "Y", "1">>, <<"E", "R", "0">>>>>>,
      <<<<"f", "i", "r", "e", "(", "2", ")">>,
        <<<<"F">>, <<"A", "Y", "1">>, <<"R">>>>>>,
      <<<<"h", "i", "r", "e">>,
        <<<<"H", "H">>, <<"A", "Y", "1">>, <<"E", "R", "0">>>>>>,
      <<<<"h", "i", "r", "e", "(", "2", ")">>,
        <<<<"H", "H">>, <<"A", "Y", "1">>, <<"R">>>>>>,
      <<<<"w", "i", "r", "e">>,
        <<<<"W">>, <<"A", "Y", "1">>, <<"E", "R", "0">>>>>>,
      <<<<"W", "i", "r", "e", "(", "2", ")">>,
        <<<<"W">>, <<"A", "Y", "1">>, <<"R">>>>>>,
      <<<<"r", "e", "t", "i", "r", "e">>,
        <<<<"R">>, <<"I", "H", "0">>, <<"T">>, <<"A", "Y", "1">>, <<"E", "R", "0">>>>>>,
      <<<<"r", "e", "t", "i", "r", "e", "(", "2", ")">>,
        <<<<"R">>, <<"I", "Y", "0">>, <<"T">>, <<"A", "Y", "1">>, <<"E", "R", "0">>>>>>,
      <<<<"r", "e", "t", "i", "r", "e", "(", "3", ")">>,
        <<<<"R">>, <<"I", "H", "0">>, <<"T">>, <<"A", "Y", "2">>, <<"E", "R", "0">>>>>>
    >>

\* two feminine families, /IY1 DH ER0/ and /AY1 DH ER0/, that share the words
\* with two pronunciations
CorpusEither ==
    <<
      <<<<"e", "i", "t", "h", "e", "r">>,
        <<<<"I", "Y", "1">>, <<"D", "H">>, <<"E", "R", "0">>>>>>,
      <<<<"e", "i", "t", "h", "e", "r", "(", "2", ")">>,
        <<<<"A", "Y", "1">>, <<"D", "H">>, <<"E", "R", "0">>>>>>,
      <<<<"n", "e", "i", "t", "h", "e", "r">>,
        <<<<"N">>, <<"I", "Y", "1">>, <<"D", "H">>, <<"E", "R", "0">>>>>>,
      <<<<"n", "e", "i", "t", "h", "e", "r", "(", "2", ")">>,
        <<<<"N">>, <<"A", "Y", "1">>, <<"D", "H">>, <<"E", "R", "0">>>>>>,
      <<<<"b", "r", "e", "a", "t", "h", "e", "r">>,
        <<<<"B">>, <<"R">>, <<"I", "Y", "1">>, <<"D", "H">>, <<"E", "R", "0">>>>>>,
      <<<<"t", "i", "t", "h", "e", "r">>,
        <<<<"T">>, <<"A", "Y", "1">>, <<"D", "H">>, <<"E", "R", "0">>>>>>,
      <<<<"l", "i", "t", "h", "e", "r">>,
        <<<<"L">>, <<"A", "Y", "1">>, <<"D", "H">>, <<"E", "R", "0">>>>>>
    >>

\* the /AY1 T/ family of the docstrings of ortho_ending
CorpusNight ==
    <<
      <<<<"n", "i", "g", "h", "t">>,
        <<<<"N">>, <<"A", "Y", "1">>, <<"T">>>>>>,
      <<<<"f", "i", "g", "h", "t">>,
        <<<<"F">>, <<"A", "Y", "1">>, <<"T">>>>>>,
      <<<<"w", "r", "i", "t", "e">>,
        <<<<"R">>, <<"A", "Y", "1">>, <<"T">>>>>>,
      <<<<"b", "y", "t", "e">>,
        <<<<"B">>, <<"A", "Y", "1">>, <<"T">>>>>>
    >>

\* a family with seven distinct orthographic endings among eight words
CorpusWide ==
    <<
      <<<<"d", "o">>,
        <<<<"D">>, <<"U", "W", "1">>>>>>,
      <<<<"y", "o", "u">>,
        <<<<"Y">>, <<"U", "W", "1">>>>>>,
      <<<<"b", "l", "u", "e">>,
        <<<<"B">>, <<"L">>, <<"U", "W", "1">>>>>>,
      <<<<"v", "i", "e", "w">>,
        <<<<"V">>, <<"Y">>, <<"U", "W", "1">>>>>>,
      <<<<"t", "h", "r", "o", "u", "g", "h">>,
        <<<<"T", "H">>, <<"R">>, <<"U", "W", "1">>>>>>,
      <<<<"c", "o", "u", "p">>,
        <<<<"K">>, <<"U", "W", "1">>>>>>,
      <<<<"d", "e", "b", "u", "t">>,
        <<<<"D">>, <<"E", "Y", "0">>, <<"B">>, <<"Y">>, <<"U", "W", "1">>>>>>,
      <<<<"s", "h", "o", "e">>,
        <<<<"S", "H">>, <<"U", "W", "1">>>>>>
    >>

PhonemeAlphabet == {<<"T">>, <<"A", "Y", "1">>, <<"I", "Y", "1">>, <<"E", "R", "0">>, <<"A", "H", "2">>}

PhonemeSeqs == UNION {[1..n -> PhonemeAlphabet] : n \in 0..MaxPhonemes}

\* three homophones pronounced as the phoneme sequence p
Homophones(p) ==
    << <<<<"r", "i", "g", "h", "t">>, p>>,
       <<<<"r", "i", "t", "e">>, p>>,
       <<<<"w", "r", "i", "g", "h", "t">>, p>> >>

\* the entries of corpus c at the positions S, in the order of c
Pick(c, S) ==
    [i \in 1..Cardinality(S) |->
        c[CHOOSE x \in S : Cardinality({y \in S : y <= x}) = i]]

Selections(c) ==
    {Pick(c, S) : S \in {T \in SUBSET DOMAIN c : Cardinality(T) <= MaxEntries}}

Inputs ==
    Selections(CorpusVariants) \cup Selections(CorpusEither)
    \cup Selections(CorpusNight) \cup Selections(CorpusWide)
    \cup {Homophones(p) : p \in PhonemeSeqs}

\* the scores the Frequency Source may give a word: below the cutoff (2496,
\* which rounds to the cutoff), and pairs that differ (3000/3504) or that
\* differ only before rounding (3496/3504)
ScoreChoices(word) ==
    CASE word = <<"f", "i", "r", "e">> -> {2496, 3000}
      [] word = <<"h", "i", "r", "e">> -> {3000}
      [] word = <<"w", "i", "r", "e">> -> {3000, 3504}
      [] word = <<"r", "e", "t", "i", "r", "e">> -> {3000, 3496}
      [] word = <<"e", "i", "t", "h", "e", "r">> -> {3000}
      [] word = <<"n", "e", "i", "t", "h", "e", "r">> -> {3000}
      [] word = <<"b", "r", "e", "a", "t", "h", "e", "r">> -> {3000, 3504}
      [] word = <<"t", "i", "t", "h", "e", "r">> -> {3000, 3496}
      [] word = <<"l", "i", "t", "h", "e", "r">> -> {3000}
      [] word = <<"n", "i", "g", "h", "t">> -> {3000, 3504}
      [] word = <<"f", "i", "g", "h", "t">> -> {3000, 3504}
      [] word = <<"w", "r", "i", "t", "e">> -> {3000, 3504}
      [] word = <<"b", "y", "t", "e">> -> {3000, 3504}
      [] word = <<"d", "o">> -> {3000, 3504}
      [] word = <<"y", "o", "u">> -> {3000, 3504}
      [] word = <<"b", "l", "u", "e">> -> {3000, 3504}
      [] word = <<"v", "i", "e", "w">> -> {3504}
      [] word = <<"t", "h", "r", "o", "u", "g", "h">> -> {3000}
      [] word = <<"c", "o", "u", "p">> -> {3000, 3504}
      [] word = <<"d", "e", "b", "u", "t">> -> {3000}
      [] word = <<"s", "h", "o", "e">> -> {3000, 3504}
      [] word = <<"r", "i", "g", "h", "t">> -> {3000}
      [] word = <<"r", "i", "t", "e">> -> {3504}
      [] word = <<"w", "r", "i", "g", "h", "t">> -> {3000}

\* every assignment of a score to each of the words
RECURSIVE ScoreAssignments(_)
ScoreAssignments(words) ==
    IF words = {} THEN {<<>>}
    ELSE LET w    == CHOOSE x \in words : TRUE
             rest == ScoreAssignments(words \ {w})
         IN  {(w :> z) @@ f : f \in rest, z \in ScoreChoices(w)}

\* the spellings the Frequency Source may be asked about; a variant line's
\* spelling scores as its word does
LookupWords(entries) ==
    {lower(strip_variant(entries[i][1])) : i \in DOMAIN entries}
    \cup {lower(entries[i][1]) : i \in DOMAIN entries}

(***************************************************************************)
(* Stage 5: the output files.                                              *)
(***************************************************************************)
\* basic: OUTPUT_TSV
OUTPUT_TSV == "rhyme_families_basic.tsv"

\* enhanced: OUT_DIR / f"rhyme_families_{rtype}.tsv"
TypePath(rtype) ==
    CASE rtype = "masculine" -> "rhyme_families_masculine.tsv"
      [] rtype = "feminine"  -> "rhyme_families_feminine.tsv"
      [] rtype = "dactylic"  -> "rhyme_families_dactylic.tsv"

\* enhanced: OUT_DIR / "rhyme_families_all.tsv"
AllPath == "rhyme_families_all.tsv"

Paths == {OUTPUT_TSV, AllPath} \cup {TypePath(RTYPES[i]) : i \in DOMAIN RTYPES}

\* basic: fields
fields ==
    <<"rhyme_unit", "family_size", "representative", "rep_zipf",
      "spelling_variants", "all_words">>

\* enhanced: base_fields
base_fields ==
    <<"rhyme_unit", "syllables_after", "family_size", "representative",
      "rep_zipf", "spelling_variants", "all_words">>

\* enhanced: all_fields = ['type'] + base_fields
all_fields == <<"type">> \o base_fields

\* str(x) of a rounded score: the whole part, a point, and the hundredths
\* without a trailing zero ("3.5", "3.0", "2.97")
FloatStr(z) ==
    LET h == (z % 1000) \div 10
    IN  Digits(z \div 1000) \o <<".">>
        \o (IF h % 10 = 0 THEN <<DigitChars[(h \div 10) + 1]>>
            ELSE <<DigitChars[(h \div 10) + 1], DigitChars[(h % 10) + 1]>>)

\* the text csv writes for one field of a row
Cell(row, field) ==
    CASE field \in {"family_size", "syllables_after"} -> Digits(row[field])
      [] field = "rep_zipf" -> FloatStr(row[field])
      [] OTHER -> row[field]

\* DictWriter.writerow: the fields of the row in the order of fieldnames; a
\* key of the row that is no field is left out (extrasaction='ignore')
Line(row, fieldnames) == [i \in DOMAIN fieldnames |-> Cell(row, fieldnames[i])]

\* the calls of the writer in the order main() makes them
Outputs ==
    IF script = "basic"
    THEN <<[path |-> OUTPUT_TSV, rows |-> rows, fieldnames |-> fields]>>
    ELSE [i \in DOMAIN type_rows |->
             [path |-> TypePath(type_rows[i].k), rows |-> type_rows[i].v,
              fieldnames |-> base_fields]]
         \o <<[path |-> AllPath, rows |-> all_rows, fieldnames |-> all_fields]>>

(***************************************************************************)
(* The run of main().                                                      *)
(***************************************************************************)
\* main() starts on one of the inputs, with every destination in one of the
\* states "absent" (no such file) or "stale" (the file of an earlier run)
Start(inputs, found) ==
    /\ script \in {"basic", "enhanced"}
    /\ cmu_entries \in inputs
    /\ \E f \in ScoreAssignments({lower(strip_variant(cmu_entries[i][1])) :
                                    i \in DOMAIN cmu_entries}) :
         zipf = [w \in LookupWords(cmu_entries) |-> f[lower(strip_variant(w))]]
    /\ pc = "collect"
    /\ word_pronunciations = <<>>
    /\ families = <<>>
    /\ by_type = <<>>
    /\ stats = [kept |-> 0, skipped_freq |-> 0, skipped_stress |-> 0]
    /\ rows = <<>>
    /\ type_rows = <<>>
    /\ all_rows = <<>>
    /\ files \in {[p \in Paths |-> [state |-> st, lines |-> <<>>]] : st \in found}
    /\ writer = [n |-> 1, open |-> FALSE]

Init == Start(Inputs, {"absent"})

\* stage 2
Collect ==
    /\ pc = "collect"
    /\ word_pronunciations' = CollectLoop(cmu_entries, <<>>)
    /\ pc' = "filter"
    /\ UNCHANGED <<files, writer, script, cmu_entries, zipf, families, by_type, stats, rows,
                   type_rows, all_rows>>

\* basic, stage 3
FilterBasic ==
    /\ pc = "filter"
    /\ script = "basic"
    /\ LET acc == WordLoop(Items(word_pronunciations),
                           [families |-> <<>>, kept |-> 0,
                            skipped_freq |-> 0, skipped_stress |-> 0])
       IN  /\ families' = acc.families
           /\ stats' = [kept |-> acc.kept, skipped_freq |-> acc.skipped_freq,
                        skipped_stress |-> acc.skipped_stress]
    /\ pc' = "build"
    /\ UNCHANGED <<files, writer, script, cmu_entries, zipf, word_pronunciations, by_type, rows,
                   type_rows, all_rows>>

\* enhanced, stage 3
FilterEnhanced ==
    /\ pc = "filter"
    /\ script = "enhanced"
    /\ LET acc == WordLoopTyped(Items(word_pronunciations),
                                [by_type |-> [i \in DOMAIN RTYPES |->
                                                 [k |-> RTYPES[i], v |-> <<>>]],
                                 kept |-> 0, skipped_freq |-> 0, skipped_stress |-> 0])
       IN  /\ by_type' = acc.by_type
           /\ stats' = [kept |-> acc.kept, skipped_freq |-> acc.skipped_freq,
                        skipped_stress |-> acc.skipped_stress]
    /\ pc' = "build"
    /\ UNCHANGED <<files, writer, script, cmu_entries, zipf, word_pronunciations, families, rows,
                   type_rows, all_rows>>

\* basic, stage 4
BuildBasic ==
    /\ pc = "build"
    /\ script = "basic"
    /\ rows' = RowLoop(families, <<>>)
    /\ pc' = "sort"
    /\ UNCHANGED <<files, writer, script, cmu_entries, zipf, word_pronunciations, families, by_type,
                   stats, type_rows, all_rows>>

\* enhanced, stage 4, up to the sort of all_rows
BuildEnhanced ==
    /\ pc = "build"
    /\ script = "enhanced"
    /\ LET acc == TypeLoop(by_type, [type_rows |-> <<>>, all_rows |-> <<>>])
       IN  /\ type_rows' = acc.type_rows
           /\ all_rows' = acc.all_rows
    /\ pc' = "sort"
    /\ UNCHANGED <<files, writer, script, cmu_entries, zipf, word_pronunciations, families, by_type,
                   stats, rows>>

\* basic: rows.sort(...)
SortBasic ==
    /\ pc = "sort"
    /\ script = "basic"
    /\ rows' = SortRows(rows)
    /\ pc' = "write"
    /\ UNCHANGED <<files, writer, script, cmu_entries, zipf, word_pronunciations, families, by_type,
                   stats, type_rows, all_rows>>

\* enhanced: all_rows.sort(...)
SortEnhanced ==
    /\ pc = "sort"
    /\ script = "enhanced"
    /\ all_rows' = SortRows(all_rows)
    /\ pc' = "write"
    /\ UNCHANGED <<files, writer, script, cmu_entries, zipf, word_pronunciations, families, by_type,
                   stats, rows, type_rows>>

\* open(path, 'w', ...): the file is created, or cut to nothing
OpenFile ==
    /\ pc = "write"
    /\ ~writer.open
    /\ writer.n <= Len(Outputs)
    /\ files' = [files EXCEPT ![Outputs[writer.n].path] =
                                  [state |-> "written", lines |-> <<>>]]
    /\ writer' = [writer EXCEPT !.open = TRUE]
    /\ UNCHANGED <<script, cmu_entries, zipf, pc, word_pronunciations, families,
                   by_type, stats, rows, type_rows, all_rows>>

\* open(path, 'w', ...) raises: the exception leaves main()
OpenFails ==
    /\ pc = "write"
    /\ ~writer.open
    /\ writer.n <= Len(Outputs)
    /\ pc' = "failed"
    /\ UNCHANGED <<script, cmu_entries, zipf, word_pronunciations, families,
                   by_type, stats, rows, type_rows, all_rows, files, writer>>

\* writer.writeheader()
WriteHeader ==
    /\ pc = "write"
    /\ writer.open
    /\ LET o == Outputs[writer.n]
       IN  /\ files[o.path].lines = <<>>
           /\ files' = [files EXCEPT ![o.path].lines = <<o.fieldnames>>]
    /\ UNCHANGED <<script, cmu_entries, zipf, pc, word_pronunciations, families,
                   by_type, stats, rows, type_rows, all_rows, writer>>

\* writer.writerows(rows), one row
WriteRow ==
    /\ pc = "write"
    /\ writer.open
    /\ LET o == Outputs[writer.n]
           k == Len(files[o.path].lines)
       IN  /\ k >= 1
           /\ k <= Len(o.rows)
           /\ files' = [files EXCEPT ![o.path].lines =
                                         Append(@, Line(o.rows[k], o.fieldnames))]
    /\ UNCHANGED <<script, cmu_entries, zipf, pc, word_pronunciations, families,
                   by_type, stats, rows, type_rows, all_rows, writer>>

\* a write or the closing flush raises: the with statement closes the file
\* as it is and the exception leaves main()
WriteFails ==
    /\ pc = "write"
    /\ writer.open
    /\ writer' = [writer EXCEPT !.open = FALSE]
    /\ pc' = "failed"
    /\ UNCHANGED <<script, cmu_entries, zipf, word_pronunciations, families,
                   by_type, stats, rows, type_rows, all_rows, files>>

\* the end of the with statement; after the last output main() goes on to
\* its report
CloseFile ==
    /\ pc = "write"
    /\ writer.open
    /\ LET o == Outputs[writer.n]
       IN  Len(files[o.path].lines) = Len(o.rows) + 1
    /\ writer' = [n |-> writer.n + 1, open |-> FALSE]
    /\ pc' = IF writer.n = Len(Outputs) THEN "done" ELSE "write"
    /\ UNCHANGED <<script, cmu_entries, zipf, word_pronunciations, families,
                   by_type, stats, rows, type_rows, all_rows, files>>

Next ==
    \/ Collect
    \/ FilterBasic
    \/ FilterEnhanced
    \/ BuildBasic
    \/ BuildEnhanced
    \/ SortBasic
    \/ SortEnhanced

Spec == Init /\ [][Next]_vars

\* the whole dictionaries, with destinations that are absent or stale
WriteInputs ==
    {CorpusVariants, CorpusEither, CorpusNight, CorpusWide}

InitWrite == Start(WriteInputs, {"absent", "stale"})

NextWrite ==
    \/ Next
    \/ OpenFile
    \/ OpenFails
    \/ WriteHeader
    \/ WriteRow
    \/ WriteFails
    \/ CloseFile

SpecWrite == InitWrite /\ [][NextWrite]_vars

(***************************************************************************)
(* What the claims speak of, stated from the inputs and not through the    *)
(* operators above.                                                        *)
(***************************************************************************)
AfterFilter == pc \in {"build", "sort", "write"}
AfterBuild == pc \in {"sort", "write"}

\* s.split(sep): the parts of a joined text
RECURSIVE Split(_, _)
Split(s, sep) ==
    LET n    == Len(sep)
        hits == {i \in 1..(Len(s) - n + 1) : SubSeq(s, i, i + n - 1) = sep}
    IN  IF hits = {} THEN <<s>>
        ELSE LET i == CHOOSE x \in hits : \A y \in hits : x <= y
             IN  <<SubSeq(s, 1, i - 1)>> \o Split(SubSeq(s, i + n, Len(s)), sep)

\* the phoneme carries the primary-stress marker
HasPrimaryStress(ph) == ph # <<>> /\ ph[Len(ph)] = "1"

StressPositions(p) == {i \in DOMAIN p : HasPrimaryStress(p[i])}

\* the suffix of p from its last primary-stressed phoneme
LastStressSuffix(p) ==
    LET m == CHOOSE i \in StressPositions(p) : \A j \in StressPositions(p) : j <= i
    IN  SubSeq(p, m, Len(p))

\* the number of vowel phonemes (stress digit 0, 1 or 2) of a unit
VowelCount(u) == Cardinality({i \in DOMAIN u : u[i][Len(u[i])] \in {"0", "1", "2"}})

TypeOfCount(n) ==
    CASE n = 1 -> "masculine"
      [] n = 2 -> "feminine"
      [] n >= 3 -> "dactylic"
      [] OTHER -> "untyped"

\* the type under which a unit is filed: none in the basic script
KeyType(u) == IF script = "basic" THEN "none" ELSE TypeOfCount(VowelCount(u))

\* the small letter of each capital letter
SmallLetter ==
    ("A" :> "a") @@ ("B" :> "b") @@ ("C" :> "c") @@ ("D" :> "d") @@ ("E" :> "e")
    @@ ("F" :> "f") @@ ("G" :> "g") @@ ("H" :> "h") @@ ("I" :> "i") @@ ("J" :> "j")
    @@ ("K" :> "k") @@ ("L" :> "l") @@ ("M" :> "m") @@ ("N" :> "n") @@ ("O" :> "o")
    @@ ("P" :> "p") @@ ("Q" :> "q") @@ ("R" :> "r") @@ ("S" :> "s") @@ ("T" :> "t")
    @@ ("U" :> "u") @@ ("V" :> "v") @@ ("W" :> "w") @@ ("X" :> "x") @@ ("Y" :> "y")
    @@ ("Z" :> "z")

\* the spelling without a trailing "(n)" marker, in lower case
CanonicalWord(raw) ==
    LET n == Len(raw)
        marker(k) == /\ raw[k] = "("
                     /\ raw[n] = ")"
                     /\ k + 1 <= n - 1
                     /\ \A i \in (k + 1)..(n - 1) :
                          raw[i] \in {"0", "1", "2", "3", "4", "5", "6", "7", "8", "9"}
        bare == IF \E k \in 1..n : marker(k)
                THEN SubSeq(raw, 1, (CHOOSE k \in 1..n : marker(k)) - 1)
                ELSE raw
    IN  [i \in DOMAIN bare |->
            IF bare[i] \in DOMAIN SmallLetter THEN SmallLetter[bare[i]] ELSE bare[i]]

\* the canonical words of the source, and the place each is first met
SourceWords == {CanonicalWord(cmu_entries[i][1]) : i \in DOMAIN cmu_entries}

FirstMet(w) ==
    CHOOSE i \in DOMAIN cmu_entries :
        /\ CanonicalWord(cmu_entries[i][1]) = w
        /\ \A j \in 1..(i - 1) : CanonicalWord(cmu_entries[j][1]) # w

\* the rhyme units the pronunciations of word w produce
UnitsOf(w) ==
    {LastStressSuffix(cmu_entries[i][2]) :
        i \in {j \in DOMAIN cmu_entries :
                 /\ CanonicalWord(cmu_entries[j][1]) = w
                 /\ StressPositions(cmu_entries[j][2]) # {}}}

\* the families of the run, as [unit, rtype, members], members a sequence of
\* [k, v] records in the order of insertion
Families ==
    IF script = "basic"
    THEN {[unit |-> families[i].k, rtype |-> "none", members |-> families[i].v] :
            i \in DOMAIN families}
    ELSE UNION {{[unit |-> by_type[t].v[i].k, rtype |-> by_type[t].k,
                  members |-> by_type[t].v[i].v] : i \in DOMAIN by_type[t].v} :
                t \in DOMAIN by_type}

MemberSet(f) == {f.members[i].k : i \in DOMAIN f.members}

\* the row lists of the run: the basic output, or the per-type outputs and
\* the combined output
RowLists ==
    IF script = "basic" THEN {rows}
    ELSE {all_rows} \cup {type_rows[t].v : t \in DOMAIN type_rows}

Rows == UNION {Range(l) : l \in RowLists}

RowType(r) == IF script = "basic" THEN "none" ELSE r.type

\* the full member list of a row, and the words of its summary
RowMembers(r) == Split(r.all_words, <<",", " ">>)

RowSummary(r) ==
    IF r.spelling_variants = <<>> THEN <<>>
    ELSE LET parts == Split(r.spelling_variants, <<",", " ", " ">>)
         IN  [i \in DOMAIN parts |-> Split(parts[i], <<" ", "(">>)[1]]

\* the family a row was built from
FamilyOfRow(r) ==
    CHOOSE f \in Families :
        f.unit = Split(r.rhyme_unit, <<" ">>) /\ f.rtype = RowType(r)

(***************************************************************************)
(* C1.  Rhyme-unit extraction: a pronunciation gives no unit exactly when  *)
(* no phoneme ends in '1'; otherwise its unit is the suffix from the last  *)
(* primary-stressed phoneme.  Seen in the keys of the families: they are   *)
(* exactly the last-stress suffixes of the pronunciations, with a primary  *)
(* stress, of the words that pass the cutoff.                              *)
(***************************************************************************)
C1_UnitIsSuffixFromLastStress ==
    AfterFilter =>
        {f.unit : f \in Families}
          = UNION {UnitsOf(w) : w \in {x \in SourceWords : zipf[x] >= ZIPF_CUTOFF}}

\* a pronunciation with two primary stresses has been filed
C1_Witness ==
    /\ AfterFilter
    /\ \E i \in DOMAIN cmu_entries :
         /\ Cardinality(StressPositions(cmu_entries[i][2])) >= 2
         /\ \E f \in Families :
              /\ f.unit = LastStressSuffix(cmu_entries[i][2])
              /\ Len(f.unit) < Len(cmu_entries[i][2])

(***************************************************************************)
(* C2.  Frequency filter: a word whose score is below the cutoff is a      *)
(* member of no family and of no row's member list; every member's score   *)
(* is at least the cutoff.                                                 *)
(***************************************************************************)
C2_NoMemberBelowCutoff ==
    /\ \A f \in Families :
         \A i \in DOMAIN f.members :
            /\ f.members[i].v >= ZIPF_CUTOFF
            /\ zipf[f.members[i].k] >= ZIPF_CUTOFF
    /\ \A w \in SourceWords :
         zipf[w] < ZIPF_CUTOFF => \A f \in Families : w \notin MemberSet(f)
    /\ \A r \in Rows :
         \A w \in Range(RowMembers(r)) : zipf[w] >= ZIPF_CUTOFF

\* a word below the cutoff has a pronunciation whose unit is a family's key
C2_Witness ==
    /\ AfterBuild
    /\ \E w \in SourceWords :
         /\ zipf[w] < ZIPF_CUTOFF
         /\ \E f \in Families : f.unit \in UnitsOf(w) /\ Len(f.members) >= MIN_FAMILY_SIZE
    /\ Rows # {}

(***************************************************************************)
(* C3.  Multi-pronunciation membership: a word that passes the cutoff is a *)
(* member of the family of every unit its pronunciations produce (a        *)
(* pronunciation without a unit is skipped alone), and of no other family. *)
(***************************************************************************)
C3_MemberOfEachUnitFamily ==
    AfterFilter =>
        /\ \A w \in SourceWords :
              zipf[w] >= ZIPF_CUTOFF =>
                 \A u \in UnitsOf(w) :
                    \E f \in Families :
                       f.unit = u /\ f.rtype = KeyType(u) /\ w \in MemberSet(f)
        /\ \A f \in Families :
              \A w \in MemberSet(f) :
                 w \in SourceWords /\ f.unit \in UnitsOf(w) /\ f.rtype = KeyType(f.unit)

\* a word with a pronunciation without primary stress is in a family, and a
\* word is in two families
C3_Witness ==
    /\ AfterFilter
    /\ \E i \in DOMAIN cmu_entries :
         /\ StressPositions(cmu_entries[i][2]) = {}
         /\ \E f \in Families : CanonicalWord(cmu_entries[i][1]) \in MemberSet(f)
    /\ \E f, g \in Families : f # g /\ MemberSet(f) \cap MemberSet(g) # {}

(***************************************************************************)
(* C4.  No double counting: in every row, family_size is the number of     *)
(* distinct words of the full member list, and no word is listed twice.    *)
(***************************************************************************)
C4_SizeCountsDistinctWords ==
    \A r \in Rows :
        LET words == RowMembers(r)
        IN  /\ r.family_size = Cardinality(Range(words))
            /\ \A i, j \in DOMAIN words : words[i] = words[j] => i = j

\* a row lists a word two of whose pronunciations produce the row's unit
C4_Witness ==
    \E r \in Rows :
        \E i, j \in DOMAIN cmu_entries :
            /\ i # j
            /\ CanonicalWord(cmu_entries[i][1]) = CanonicalWord(cmu_entries[j][1])
            /\ CanonicalWord(cmu_entries[i][1]) \in Range(RowMembers(r))
            /\ StressPositions(cmu_entries[i][2]) # {}
            /\ StressPositions(cmu_entries[j][2]) # {}
            /\ LastStressSuffix(cmu_entries[i][2]) = Split(r.rhyme_unit, <<" ">>)
            /\ LastStressSuffix(cmu_entries[j][2]) = Split(r.rhyme_unit, <<" ">>)

(***************************************************************************)
(* C5.  Minimum family size: a family has an output row exactly when it    *)
(* has at least MIN_FAMILY_SIZE members, it has one row in each output it  *)
(* belongs to, and every row's family_size is at least the minimum.        *)
(***************************************************************************)
RowsOfFamily(l, f) ==
    {i \in DOMAIN l : l[i].rhyme_unit = Join(<<" ">>, f.unit) /\ RowType(l[i]) = f.rtype}

\* the output lists a family belongs to
ListsOfFamily(f) ==
    IF script = "basic" THEN {rows}
    ELSE {all_rows} \cup {type_rows[t].v : t \in {x \in DOMAIN type_rows : type_rows[x].k = f.rtype}}

C5_RowIffLargeEnough ==
    AfterBuild =>
        /\ \A f \in Families :
              \A l \in ListsOfFamily(f) :
                 Cardinality(RowsOfFamily(l, f))
                   = (IF Cardinality(MemberSet(f)) >= MIN_FAMILY_SIZE THEN 1 ELSE 0)
        /\ \A r \in Rows :
              /\ r.family_size >= MIN_FAMILY_SIZE
              /\ \E f \in Families :
                    f.unit = Split(r.rhyme_unit, <<" ">>) /\ f.rtype = RowType(r)
        /\ script = "enhanced" =>
              /\ Len(type_rows) = Len(RTYPES)
              /\ \A t \in DOMAIN type_rows :
                    \A i \in DOMAIN type_rows[t].v : type_rows[t].v[i].type = type_rows[t].k

\* a family of exactly two members has no row, one of exactly three has
C5_Witness ==
    /\ AfterBuild
    /\ \E f, g \in Families :
         /\ Cardinality(MemberSet(f)) = MIN_FAMILY_SIZE - 1
         /\ Cardinality(MemberSet(g)) = MIN_FAMILY_SIZE
         /\ \A l \in RowLists : RowsOfFamily(l, f) = {}
         /\ \A l \in ListsOfFamily(g) : RowsOfFamily(l, g) # {}

(***************************************************************************)
(* C6.  Output ordering: in every emitted row list, of two consecutive     *)
(* rows the earlier has the larger family_size, or the same family_size    *)
(* and a representative score (the row's rep_zipf) not smaller.            *)
(***************************************************************************)
Ordered(l) ==
    \A i \in 1..(Len(l) - 1) :
        \/ l[i].family_size > l[i + 1].family_size
        \/ /\ l[i].family_size = l[i + 1].family_size
           /\ l[i].rep_zipf >= l[i + 1].rep_zipf

C6_RowsOrdered ==
    /\ pc = "write" => \A l \in RowLists : Ordered(l)
    /\ AfterBuild /\ script = "enhanced" => \A t \in DOMAIN type_rows : Ordered(type_rows[t].v)

\* the sort has moved a larger family, inserted later, in front of a smaller
C6_Witness ==
    /\ pc = "write"
    /\ script = "basic"
    /\ Len(rows) >= 2
    /\ rows[1].family_size > rows[2].family_size
    /\ \E i, j \in DOMAIN families :
         /\ i > j
         /\ rows[1].rhyme_unit = Join(<<" ">>, families[i].k)
         /\ rows[2].rhyme_unit = Join(<<" ">>, families[j].k)

(***************************************************************************)
(* C7.  Representative selection: the representative of a row is a member  *)
(* of its family with the highest score and, among the members with that   *)
(* score, the one met first in the source; the full member list holds all  *)
(* members by descending score, equal scores in the order met.             *)
(***************************************************************************)
C7_RepresentativeIsFirstBest ==
    \A r \in Rows :
        LET f     == FamilyOfRow(r)
            words == RowMembers(r)
        IN  /\ r.representative \in MemberSet(f)
            /\ r.rep_zipf = Round2(zipf[r.representative])
            /\ \A w \in MemberSet(f) :
                  \/ zipf[w] < zipf[r.representative]
                  \/ /\ zipf[w] = zipf[r.representative]
                     /\ FirstMet(r.representative) <= FirstMet(w)
            /\ Range(words) = MemberSet(f)
            /\ Len(words) = Cardinality(MemberSet(f))
            /\ \A i \in 1..(Len(words) - 1) :
                  \/ zipf[words[i]] > zipf[words[i + 1]]
                  \/ /\ zipf[words[i]] = zipf[words[i + 1]]
                     /\ FirstMet(words[i]) < FirstMet(words[i + 1])

\* the highest score of a row's family is shared, and a member met before the
\* representative has a lower score
C7_Witness ==
    \E r \in Rows :
        LET f == FamilyOfRow(r)
        IN  /\ \E w \in MemberSet(f) :
                 w # r.representative /\ zipf[w] = zipf[r.representative]
            /\ \E w \in MemberSet(f) :
                 FirstMet(w) < FirstMet(r.representative) /\ zipf[w] < zipf[r.representative]

(***************************************************************************)
(* C8.  Spelling-variant summary: the summary of a row holds one word per  *)
(* orthographic ending, a highest-scoring member with that ending, in      *)
(* descending score order; it has min(MAX_VARIANTS, number of endings)     *)
(* entries, no ending left out scoring higher than one shown; and every    *)
(* member stays in the full member list.                                   *)
(***************************************************************************)
\* the spelling from its last vowel letter on, in lower case; all of it when
\* it has no vowel letter
Ending(w) ==
    LET small  == [i \in DOMAIN w |->
                     IF w[i] \in DOMAIN SmallLetter THEN SmallLetter[w[i]] ELSE w[i]]
        vowels == {i \in DOMAIN small : small[i] \in {"a", "e", "i", "o", "u"}}
    IN  IF vowels = {} THEN small
        ELSE SubSeq(small, CHOOSE i \in vowels : \A j \in vowels : j <= i, Len(small))

Endings(f) == {Ending(w) : w \in MemberSet(f)}

BestOfEnding(f, e) ==
    CHOOSE z \in {zipf[w] : w \in MemberSet(f)} :
        /\ \E w \in MemberSet(f) : Ending(w) = e /\ zipf[w] = z
        /\ \A w \in MemberSet(f) : Ending(w) = e => zipf[w] <= z

C8_SummaryBestPerEnding ==
    \A r \in Rows :
        LET f       == FamilyOfRow(r)
            summary == RowSummary(r)
            n       == Cardinality(Endings(f))
        IN  /\ Len(summary) = (IF n < MAX_VARIANTS THEN n ELSE MAX_VARIANTS)
            /\ \A i \in DOMAIN summary :
                  /\ summary[i] \in MemberSet(f)
                  /\ zipf[summary[i]] = BestOfEnding(f, Ending(summary[i]))
            /\ \A i, j \in DOMAIN summary :
                  Ending(summary[i]) = Ending(summary[j]) => i = j
            /\ \A i \in 1..(Len(summary) - 1) :
                  zipf[summary[i]] >= zipf[summary[i + 1]]
            /\ \A e \in Endings(f) \ {Ending(summary[i]) : i \in DOMAIN summary} :
                  \A i \in DOMAIN summary : BestOfEnding(f, e) <= zipf[summary[i]]
            /\ Range(RowMembers(r)) = MemberSet(f)

\* a family has more endings than the summary shows, two members share an
\* ending, and the ending cut scores lower than one shown
C8_Witness ==
    \E r \in Rows :
        LET f == FamilyOfRow(r)
        IN  /\ Cardinality(Endings(f)) > MAX_VARIANTS
            /\ Len(RowSummary(r)) = MAX_VARIANTS
            /\ Cardinality(MemberSet(f)) > Cardinality(Endings(f))
            /\ \E w \in MemberSet(f) :
                 /\ w \notin Range(RowSummary(r))
                 /\ w \in Range(RowMembers(r))
                 /\ zipf[w] < zipf[RowSummary(r)[1]]

(***************************************************************************)
(* C9.  Orthographic grouping scenario: in the family of "night", "fight", *)
(* "write" and "byte", "night" and "fight" share the ending "ight" and     *)
(* give one spelling-variant entry, while "write" ("ite") and "byte"       *)
(* ("yte") stay two distinct entries: three entries in all.                *)
(***************************************************************************)
C9_WriteAndByteStayDistinct ==
    \A r \in Rows :
        Range(RowMembers(r)) = {<<"n", "i", "g", "h", "t">>, <<"f", "i", "g", "h", "t">>,
                                <<"w", "r", "i", "t", "e">>, <<"b", "y", "t", "e">>}
        => LET shown == Range(RowSummary(r))
           IN  /\ Cardinality(shown \cap {<<"n", "i", "g", "h", "t">>,
                                          <<"f", "i", "g", "h", "t">>}) = 1
               /\ <<"w", "r", "i", "t", "e">> \in shown
               /\ <<"b", "y", "t", "e">> \in shown
               /\ Len(RowSummary(r)) = 3

(***************************************************************************)
(* C10.  Rhyme-type classification (enhanced script): a unit is filed      *)
(* under the type its number of vowel phonemes gives (1 masculine,         *)
(* 2 feminine, 3 or more dactylic), syllables_after is that number less    *)
(* one and never negative, and no unit is a key under two types.           *)
(***************************************************************************)
C10_TypeFollowsVowelCount ==
    script = "enhanced" =>
        /\ \A f \in Families :
              /\ VowelCount(f.unit) >= 1
              /\ f.rtype = TypeOfCount(VowelCount(f.unit))
        /\ \A f, g \in Families : f.unit = g.unit => f.rtype = g.rtype
        /\ \A r \in Rows :
              LET n == VowelCount(Split(r.rhyme_unit, <<" ">>))
              IN  /\ r.type = TypeOfCount(n)
                  /\ r.syllables_after = n - 1
                  /\ r.syllables_after >= 0

\* a pronunciation with more vowel phonemes than its unit has been filed, and
\* there are rows of a masculine, a feminine and a dactylic unit
C10_Witness ==
    /\ script = "enhanced"
    /\ \E r \in Rows : r.type = "dactylic" /\ r.syllables_after = 2
    /\ \E i \in DOMAIN cmu_entries :
         /\ StressPositions(cmu_entries[i][2]) # {}
         /\ VowelCount(cmu_entries[i][2]) > VowelCount(LastStressSuffix(cmu_entries[i][2]))
         /\ \E r \in Rows : Split(r.rhyme_unit, <<" ">>) = LastStressSuffix(cmu_entries[i][2])

\* the output that goes to the destination p, if main() writes one there
OutputsTo(p) == {o \in Range(Outputs) : o.path = p}

\* the header and every row of an output
Complete(o) ==
    <<o.fieldnames>> \o [i \in DOMAIN o.rows |-> Line(o.rows[i], o.fieldnames)]

\* the destination p is as the run found it
Untouched(p) == files[p].state # "written"

(* C11. Write-failure atomicity: once the writer has failed, while opening   *)
(* or writing a destination (after the header, after any number of rows,     *)
(* or in the enhanced script after some of the four files), no partial       *)
(* output file is left: each destination is either untouched or holds the    *)
(* complete header plus every row.                                           *)
C11_NoPartialOutput ==
    pc = "failed" =>
        \A p \in Paths :
            \/ Untouched(p)
            \/ \E o \in OutputsTo(p) : files[p].lines = Complete(o)

====
